---- MODULE Spec2Model ----
(***************************************************************************)
(* Model of the insurance contracts mock API (src/index.js): an in-memory  *)
(* array of contract objects and the Express handlers that read and        *)
(* mutate it.  Each handler runs to completion, so one request is one      *)
(* action.                                                                 *)
(*                                                                         *)
(* JavaScript values are pairs <<type, payload>>; objects are functions    *)
(* from property names to values.  A request body comes out of JSON.parse  *)
(* and so never holds an undefined value; a response goes through          *)
(* JSON.stringify, which drops the properties whose value is undefined.    *)
(***************************************************************************)
EXTENDS Integers, Sequences, FiniteSets, TLC

VARIABLES contracts, issued, last, prev, nreq

vars == <<contracts, issued, last, prev, nreq>>

\* Number of requests served in one behaviour.
MaxRequests == 3

-----------------------------------------------------------------------------
(* JavaScript values *)

Undefined == <<"undefined", "">>
Null == <<"null", "">>
Str(s) == <<"string", s>>
Num(d) == <<"number", d>>

\* ToBoolean, as applied by the ! operator
Truthy(v) ==
  CASE v[1] = "string" -> v[2] # ""
    [] v[1] = "number" -> v[2] \notin {"0", "NaN"}
    [] v[1] = "boolean" -> v[2] = "true"
    [] OTHER -> FALSE

\* property read: a missing property reads as undefined
Field(o, k) == IF k \in DOMAIN o THEN o[k] ELSE Undefined

\* res.json(o): JSON.stringify omits the undefined-valued properties
ToJSON(o) == [k \in {x \in DOMAIN o : o[x] # Undefined} |-> o[k]]

\* { ...a, ...b }
MergeOriginalWins(a, b) ==
  [k \in DOMAIN a \cup DOMAIN b |-> IF k \in DOMAIN a THEN a[k] ELSE b[k]]

Merge(a, b) ==
  [k \in DOMAIN a \cup DOMAIN b |-> IF k \in DOMAIN b THEN b[k] ELSE a[k]]

-----------------------------------------------------------------------------
(* The seeded store *)

SeedId1 == "d290f1ee-6c54-4b01-90e6-d701748f0851"
SeedId2 == "a4b1c2d3-e4f5-6a7b-8c9d-0e1f2a3b4c5d"

SeedContracts ==
  << [contractId |-> Str(SeedId1), customerId |-> Str("cust_12345"),
      policyType |-> Str("Auto"), startDate |-> Str("2024-01-01"),
      endDate |-> Str("2025-01-01"), premiumAmount |-> Num("599.99"),
      status |-> Str("active")],
     [contractId |-> Str(SeedId2), customerId |-> Str("cust_67890"),
      policyType |-> Str("Home"), startDate |-> Str("2023-06-15"),
      endDate |-> Str("2024-06-15"), premiumAmount |-> Num("1200.50"),
      status |-> Str("expired")] >>

-----------------------------------------------------------------------------
(* Identifier generator *)

\* The version-4 UUIDs the generator can return in one behaviour.
UuidPool == {"uuid-1", "uuid-2", "uuid-3", "uuid-4"}

\* uuidv4(): a random identifier, never one that was issued before
uuidv4(used) == UuidPool \ used

-----------------------------------------------------------------------------
(* Responses *)

NoBody == <<>>
MissingFields == [message |-> Str("Missing required fields")]
NotFound == [message |-> Str("Contract not found")]

Response(code, body) == [code |-> code, body |-> body]

-----------------------------------------------------------------------------
(* Handlers, as functions of the store and the request *)

\* contracts.findIndex(c => c.contractId === contractId); -1 when absent
FindIndex(cs, contractId) ==
  LET hits == {i \in 1..Len(cs) : cs[i].contractId = Str(contractId)}
  IN  IF hits = {} THEN -1
      ELSE CHOOSE i \in hits : \A j \in hits : i <= j

\* contracts.find(c => c.contractId === contractId): the empty sequence
\* stands for undefined, a one-element sequence holds the object found
FindFirstElement(cs, contractId) ==
  IF Len(cs) = 0 THEN <<>> ELSE <<cs[1]>>

Find(cs, contractId) ==
  IF FindIndex(cs, contractId) = -1 THEN <<>>
  ELSE <<cs[FindIndex(cs, contractId)]>>

\* the validation of POST /contracts
PostValidNoPremium(body) ==
  /\ Truthy(Field(body, "customerId"))
  /\ Truthy(Field(body, "policyType"))
  /\ Truthy(Field(body, "startDate"))

PostValid(body) ==
  /\ Truthy(Field(body, "customerId"))
  /\ Truthy(Field(body, "policyType"))
  /\ Truthy(Field(body, "startDate"))
  /\ Truthy(Field(body, "premiumAmount"))

\* the object literal built by POST /contracts
NewContractSpreadsBody(body, id) ==
  Merge([contractId |-> Str(id), status |-> Str("pending_approval")], body)

NewContract(body, id) ==
  [contractId |-> Str(id),
   customerId |-> Field(body, "customerId"),
   policyType |-> Field(body, "policyType"),
   startDate |-> Field(body, "startDate"),
   endDate |-> Field(body, "endDate"),
   premiumAmount |-> Field(body, "premiumAmount"),
   status |-> Str("pending_approval")]

\* contracts.push(newContract)
PostStoreUnshift(cs, body, id) == <<NewContract(body, id)>> \o cs

PostStore(cs, body, id) == Append(cs, NewContract(body, id))

PostResponse(body, id) == Response(201, ToJSON(NewContract(body, id)))

\* PUT /contracts/:contractId
PutStoreUpsert(cs, contractId, body) ==
  IF FindIndex(cs, contractId) # -1
  THEN [cs EXCEPT ![FindIndex(cs, contractId)] = Merge(@, body)]
  ELSE Append(cs, Merge([contractId |-> Str(contractId)], body))

PutStore(cs, contractId, body) ==
  IF FindIndex(cs, contractId) # -1
  THEN [cs EXCEPT ![FindIndex(cs, contractId)] = Merge(@, body)]
  ELSE cs

PutResponse(cs, contractId, body) ==
  IF FindIndex(cs, contractId) # -1
  THEN Response(200, ToJSON(Merge(cs[FindIndex(cs, contractId)], body)))
  ELSE Response(404, NotFound)

\* DELETE /contracts/:contractId
Remove(cs, i) == [j \in 1..(Len(cs) - 1) |-> IF j < i THEN cs[j] ELSE cs[j + 1]]

DeleteStoreSplice(cs, contractId) ==
  IF FindIndex(cs, contractId) # -1
  THEN Remove(cs, FindIndex(cs, contractId))
  ELSE cs

DeleteStore(cs, contractId) ==
  IF FindIndex(cs, contractId) # -1
  THEN [cs EXCEPT ![FindIndex(cs, contractId)]["status"] = Str("cancelled")]
  ELSE cs

DeleteResponse(cs, contractId) ==
  IF FindIndex(cs, contractId) # -1
  THEN Response(204, NoBody)
  ELSE Response(404, NotFound)

\* GET /contracts/:contractId
GetResponse(cs, contractId) ==
  IF Find(cs, contractId) # <<>>
  THEN Response(200, ToJSON(Find(cs, contractId)[1]))
  ELSE Response(404, NotFound)

\* GET /contracts
ListResponse(cs) == Response(200, [i \in 1..Len(cs) |-> ToJSON(cs[i])])

-----------------------------------------------------------------------------
(* Requests *)

ScenarioBody ==
  [customerId |-> Str("cust_1"), policyType |-> Str("Auto"),
   startDate |-> Str("2024-01-01"), premiumAmount |-> Num("100")]

FullBody ==
  [customerId |-> Str("cust_2"), policyType |-> Str("Home"),
   startDate |-> Str("2024-02-01"), endDate |-> Str("2025-02-01"),
   premiumAmount |-> Num("250.5"), status |-> Str("active"),
   contractId |-> Str(SeedId1)]

Without(o, k) == [x \in DOMAIN o \ {k} |-> o[x]]
With(o, k, v) == [x \in DOMAIN o \cup {k} |-> IF x = k THEN v ELSE o[x]]

PostBodies ==
  { ScenarioBody, FullBody,
    [customerId |-> Str("cust_1")],
    Without(ScenarioBody, "policyType"),
    With(ScenarioBody, "startDate", Null),
    With(ScenarioBody, "customerId", Str("")),
    With(FullBody, "premiumAmount", Num("0")) }

CustomId == "custom-id"
UnknownId == "unknown-id"

PutBodies ==
  { <<>>,
    [status |-> Str("")],
    [contractId |-> Str(SeedId1)],
    [contractId |-> Str(CustomId), status |-> Str("active"),
     notes |-> Str("renewed")],
    [premiumAmount |-> Num("0"), endDate |-> Null] }

\* The identifiers a client can put in a path: every identifier it has
\* been given, one it made up itself and one nobody uses.
PathIds == issued \cup {CustomId, UnknownId}

Exchange(op, id, body, res) ==
  [op |-> op, id |-> id, reqBody |-> body, code |-> res.code,
   resBody |-> res.body]

Summary(x) == [op |-> x.op, id |-> x.id, code |-> x.code]

-----------------------------------------------------------------------------
(* The state machine *)

Init ==
  /\ contracts = SeedContracts
  /\ issued = {SeedId1, SeedId2}
  /\ last = Exchange("START", "", <<>>, Response(0, NoBody))
  /\ prev = Summary(Exchange("START", "", <<>>, Response(0, NoBody)))
  /\ nreq = 0

Served ==
  /\ nreq < MaxRequests
  /\ nreq' = nreq + 1
  /\ prev' = Summary(last)

GetContracts ==
  /\ Served
  /\ last' = Exchange("LIST", "", <<>>, ListResponse(contracts))
  /\ UNCHANGED <<contracts, issued>>

PostContracts ==
  /\ Served
  /\ \E body \in PostBodies :
       IF ~PostValid(body)
       THEN /\ last' = Exchange("POST", "", body, Response(400, MissingFields))
            /\ UNCHANGED <<contracts, issued>>
       ELSE \E id \in uuidv4(issued) :
            /\ contracts' = PostStore(contracts, body, id)
            /\ issued' = issued \cup {id}
            /\ last' = Exchange("POST", "", body, PostResponse(body, id))

GetContract ==
  /\ Served
  /\ \E contractId \in PathIds :
       last' = Exchange("GET", contractId, <<>>,
                        GetResponse(contracts, contractId))
  /\ UNCHANGED <<contracts, issued>>

PutContract ==
  /\ Served
  /\ \E contractId \in PathIds, body \in PutBodies :
       /\ contracts' = PutStore(contracts, contractId, body)
       /\ last' = Exchange("PUT", contractId, body,
                           PutResponse(contracts, contractId, body))
  /\ UNCHANGED issued

DeleteContract ==
  /\ Served
  /\ \E contractId \in PathIds :
       /\ contracts' = DeleteStore(contracts, contractId)
       /\ last' = Exchange("DELETE", contractId, <<>>,
                           DeleteResponse(contracts, contractId))
  /\ UNCHANGED issued

Next ==
  \/ GetContracts
  \/ PostContracts
  \/ GetContract
  \/ PutContract
  \/ DeleteContract

Spec == Init /\ [][Next]_vars

-----------------------------------------------------------------------------
(* What the properties below mean by the words of the specification *)

RequiredFields == {"customerId", "policyType", "startDate", "premiumAmount"}

\* the JSON values that are falsy, and the value of a missing property
FalsyValues == {Undefined, Null, Str(""), Num("0"), <<"boolean", "false">>}

HasAllRequired(body) ==
  \A k \in RequiredFields : k \in DOMAIN body /\ body[k] \notin FalsyValues

IdPresent(cs, id) == \E i \in 1..Len(cs) : cs[i].contractId = Str(id)

NonEmptyString(v) == v[1] = "string" /\ v[2] # ""

OthersUnchanged(i) ==
  \A j \in (1..Len(contracts)) \ {i} : contracts'[j] = contracts[j]

-----------------------------------------------------------------------------
(* Properties *)

\* C1: in every reachable state no two records of the store have the same
\* contractId.
UniqueContractIds ==
  \A i, j \in 1..Len(contracts) :
    i # j => contracts[i].contractId # contracts[j].contractId

\* C2: the contractId of the record at a store position never changes under
\* any request.
ContractIdNeverReassigned ==
  [][\A i \in 1..Len(contracts) :
       /\ i <= Len(contracts')
       /\ contracts'[i].contractId = contracts[i].contractId]_vars

\* C3: in every reachable state every record of the store has a non-empty
\* status.
StatusNeverEmpty ==
  \A i \in 1..Len(contracts) :
    "status" \in DOMAIN contracts[i] /\ NonEmptyString(contracts[i].status)

\* C4: a POST /contracts whose body has all four required fields truthy is
\* answered 201 with a record whose contractId is non-empty and was never
\* issued before and whose status is "pending_approval"; that record becomes
\* the last element of the store, which grows by exactly one, whatever status
\* or contractId the body carried.
PostCreatesPending ==
  [][(last'.op = "POST" /\ HasAllRequired(last'.reqBody)) =>
       /\ last'.code = 201
       /\ NonEmptyString(last'.resBody.contractId)
       /\ last'.resBody.contractId[2] \notin issued
       /\ last'.resBody.status = Str("pending_approval")
       /\ Len(contracts') = Len(contracts) + 1
       /\ SubSeq(contracts', 1, Len(contracts)) = contracts
       /\ ToJSON(contracts'[Len(contracts')]) = last'.resBody
       /\ contracts'[Len(contracts')].status = Str("pending_approval")]_vars

PostCreatesPendingWitness ==
  /\ last.op = "POST"
  /\ last.code = 201
  /\ {"status", "contractId"} \subseteq DOMAIN last.reqBody
  /\ Len(contracts) > 3

\* C5: a POST /contracts whose body lacks one of the required fields, or has
\* it falsy (a premiumAmount of 0 included), is answered 400 with the message
\* "Missing required fields"; no identifier is generated and the store is
\* unchanged.
PostRejectsMissing ==
  [][(last'.op = "POST" /\ ~HasAllRequired(last'.reqBody)) =>
       /\ last'.code = 400
       /\ last'.resBody = [message |-> Str("Missing required fields")]
       /\ issued' = issued
       /\ contracts' = contracts]_vars

PostRejectsMissingWitness ==
  /\ last.op = "POST"
  /\ last.code = 400
  /\ "premiumAmount" \in DOMAIN last.reqBody
  /\ last.reqBody.premiumAmount = Num("0")
  /\ Len(contracts) > 2

\* C6: a PUT, DELETE or GET of an id that is the contractId of no record is
\* answered 404 with the message "Contract not found" and leaves the store
\* unchanged.
UnknownIdNotFound ==
  [][(last'.op \in {"PUT", "DELETE", "GET"} /\ ~IdPresent(contracts, last'.id)) =>
       /\ last'.code = 404
       /\ last'.resBody = [message |-> Str("Contract not found")]
       /\ contracts' = contracts]_vars

UnknownIdNotFoundWitness ==
  /\ last.op = "PUT"
  /\ last.code = 404
  /\ last.reqBody # <<>>
  /\ prev.op = "DELETE"
  /\ prev.code = 404

\* C7: a PUT of an id present in the store is answered 200 with the merged
\* record; in the stored record every field of the patch has the patch's value
\* and every other field keeps its value; the record keeps its position, and
\* the other records and the size of the store are unchanged.
PutMergesPatch ==
  [][(last'.op = "PUT" /\ IdPresent(contracts, last'.id)) =>
       /\ last'.code = 200
       /\ Len(contracts') = Len(contracts)
       /\ \E i \in 1..Len(contracts) :
            /\ contracts[i].contractId = Str(last'.id)
            /\ DOMAIN contracts'[i] = DOMAIN contracts[i] \cup DOMAIN last'.reqBody
            /\ \A k \in DOMAIN last'.reqBody :
                 contracts'[i][k] = last'.reqBody[k]
            /\ \A k \in DOMAIN contracts[i] \ DOMAIN last'.reqBody :
                 contracts'[i][k] = contracts[i][k]
            /\ last'.resBody = ToJSON(contracts'[i])
            /\ OthersUnchanged(i)]_vars

PutMergesPatchWitness ==
  /\ last.op = "PUT"
  /\ last.code = 200
  /\ DOMAIN last.reqBody = {"premiumAmount", "endDate"}
  /\ \E i \in 1..Len(contracts) :
       /\ contracts[i].premiumAmount = Num("0")
       /\ contracts[i].status = Str("pending_approval")

\* C8: a DELETE of an id present in the store is answered 204 whatever the
\* record's status; the record's status becomes "cancelled", the record stays
\* in the store and nothing else changes; a second DELETE of the same id is
\* answered 204 again and leaves the store as the first DELETE left it.
DeleteCancelsInPlace ==
  [][/\ (last'.op = "DELETE" /\ IdPresent(contracts, last'.id)) =>
          /\ last'.code = 204
          /\ last'.resBody = <<>>
          /\ Len(contracts') = Len(contracts)
          /\ \E i \in 1..Len(contracts) :
               /\ contracts[i].contractId = Str(last'.id)
               /\ DOMAIN contracts'[i] = DOMAIN contracts[i]
               /\ contracts'[i].status = Str("cancelled")
               /\ \A k \in DOMAIN contracts[i] \ {"status"} :
                    contracts'[i][k] = contracts[i][k]
               /\ OthersUnchanged(i)
     /\ (/\ last.op = "DELETE" /\ last.code = 204
         /\ last'.op = "DELETE" /\ last'.id = last.id) =>
          /\ last'.code = 204
          /\ contracts' = contracts]_vars

DeleteCancelsInPlaceWitness ==
  /\ prev.op = "DELETE"
  /\ prev.code = 204
  /\ last.op = "DELETE"
  /\ last.code = 204
  /\ last.id = prev.id
  /\ \E i \in 1..Len(contracts) : contracts[i].status = Str("cancelled")

\* C9: a successful POST /contracts immediately followed by a GET of the
\* returned contractId is answered 200 with a record equal, field for field,
\* to the one the POST returned.
GetAfterPostReturnsCreated ==
  [][(/\ last.op = "POST" /\ last.code = 201
      /\ last'.op = "GET" /\ Str(last'.id) = last.resBody.contractId) =>
       /\ last'.code = 200
       /\ last'.resBody = last.resBody]_vars

GetAfterPostReturnsCreatedWitness ==
  /\ prev.op = "POST"
  /\ prev.code = 201
  /\ last.op = "GET"
  /\ last.code = 200
  /\ Str(last.id) = contracts[Len(contracts)].contractId
  /\ \E i, j \in 1..Len(contracts) :
       i # j /\ contracts[i].contractId = contracts[j].contractId

\* C10: GET /contracts is answered 200 with the records in insertion order:
\* the store starts as the two seeded records, the active one first; no
\* request removes or moves a record, so the size never decreases, a record
\* changes only in place, and a created record goes after all the others.
ListInInsertionOrder ==
  [][/\ nreq = 0 =>
          /\ contracts = SeedContracts
          /\ contracts[1].status = Str("active")
          /\ contracts[2].status = Str("expired")
     /\ last'.op = "LIST" =>
          /\ last'.code = 200
          /\ last'.resBody = [i \in 1..Len(contracts) |-> ToJSON(contracts[i])]
          /\ contracts' = contracts
     /\ Len(contracts') >= Len(contracts)
     /\ Len(contracts') <= Len(contracts) + 1
     /\ \A i \in 1..Len(contracts) :
          \/ contracts'[i] = contracts[i]
          \/ /\ last'.op \in {"PUT", "DELETE"}
             /\ contracts[i].contractId = Str(last'.id)
             /\ OthersUnchanged(i)
     /\ Len(contracts') > Len(contracts) =>
          /\ last'.op = "POST"
          /\ ToJSON(contracts'[Len(contracts')]) = last'.resBody]_vars

ListInInsertionOrderWitness ==
  /\ last.op = "LIST"
  /\ last.code = 200
  /\ Len(last.resBody) = 3
  /\ last.resBody[1].customerId = Str("cust_12345")
  /\ last.resBody[2].status = Str("cancelled")
  /\ last.resBody[2].customerId = Str("cust_67890")

====
